---- MODULE Spec2Model ----
(***************************************************************************)
(* Model of the lip-sync engine of DeepReal (client/src/lib/lipsync.ts,    *)
(* kept in src/unnamed/part_003): the singleton LipSyncProcessor, the      *)
(* generateLipSync job with its awaits, the seek-driven frame loop of      *)
(* processVideoFrames and the MediaRecorder sink.                          *)
(*                                                                         *)
(* Durations are in milliseconds, frame positions in frame indices.        *)
(* JavaScript runs every handler to completion, so one action is one       *)
(* handler together with the promise continuations (microtasks) it wakes.  *)
(***************************************************************************)
EXTENDS Integers, Sequences, FiniteSets, TLC

\* ---- bounds of the model ----
NumJobs == 2          \* concurrent callers of generateLipSync
MaxDurSteps == 2      \* media durations are 0, 20, .. MaxDurSteps*20 ms
MaxChunk == 1         \* largest size of the blob the recorder delivers
MaxFCSteps == 60      \* frame count calculation: durations 0, 50, .. 3000 ms

\* ---- program constants ----
frameRate == 30       \* part_003:97

Jobs == 1..NumJobs
Durs == {k * 20 : k \in 0..MaxDurSteps}
FCDurs == {k * 50 : k \in 0..MaxFCSteps}
\* native pixel sizes of the videos offered to the jobs: an ordinary size
\* and one so small that the mouth rectangle is empty
Dims == {<<10, 20>>, <<2, 4>>}
NoFrame == -1

VARIABLES
  supported,      \* what isSupported() returns in this environment
  mimeOK,         \* whether MediaRecorder accepts 'video/webm;codecs=vp9'
  lipSyncService, \* TRUE once the singleton LipSyncProcessor exists
  canvas,         \* the singleton's canvas: size, who sized it, what it shows
  pc,             \* per job: where generateLipSync is suspended
  video,          \* per job: metadata of the loaded video element
  audioDur,       \* per job: duration of the audio clip (ms)
  frameCount,     \* per job: local frameCount of generateLipSync
  currentFrame,   \* per job: closure variable of processVideoFrames
  seekq,          \* per job: seeks of the video element not yet confirmed
  composited,     \* per job: frame indices composited, in order
  amps,           \* per job: frame indices an amplitude was computed for
  chunks,         \* per job: sizes of the blobs pushed to chunks[]
  handles,        \* per job: handles acquired and not released
  log,            \* per job: steps generateLipSync has carried out
  raised,         \* per job: errors thrown by any step of the job
  err,            \* per job: error the returned promise rejected with
  result,         \* per job: value the returned promise resolved with
  cancelAt,       \* per job: frames composited when the caller asked to
                  \* cancel, NoFrame while it has not
  fcIn,           \* frame count calculation: <<videoDuration, audioDuration>>
  fcOut,          \* frame count calculation: the frameCount computed
  mIn,            \* mouth mapping: two amplitudes and the profile
  mOut,           \* mouth mapping: what the mapping rules give for them
  cIn,            \* compositing: the canvas and the two calls made on it
  cOut,           \* compositing: the canvas after each call
  wavIn,          \* WAV encoding: the AudioBuffer
  wavOut,         \* WAV encoding: the bytes of the file, by field
  winIn,          \* amplitude window: sample rate, buffer and frame index
  winOut,         \* amplitude window: the window read and the amplitude
  sim,            \* simulateLipSync: the audio element, recorder and loop
  store           \* MemStorage: its maps and id counters

vars == <<supported, mimeOK, lipSyncService, canvas, pc, video, audioDur,
          frameCount, currentFrame, seekq, composited, amps, chunks, handles,
          log, raised, err, result, cancelAt, fcIn, fcOut, mIn, mOut, cIn,
          cOut, wavIn, wavOut, winIn, winOut, sim, store>>

\* what the handlers of a sync job never write
rest == <<cancelAt, fcIn, fcOut, mIn, mOut, cIn, cOut, wavIn, wavOut, winIn,
          winOut, sim, store>>

\* what belongs to the frame count, mapping, compositing and WAV
\* calculations checked on their own
calcVars == <<fcIn, fcOut, mIn, mOut, cIn, cOut, wavIn, wavOut>>

\* what belongs to the sync jobs
jobVars == <<supported, mimeOK, lipSyncService, canvas, pc, video, audioDur,
             frameCount, currentFrame, seekq, composited, amps, chunks,
             handles, log, raised, err, result, cancelAt>>

NoVideo == [duration |-> 0, videoWidth |-> 0, videoHeight |-> 0]
NoResult == [bytes |-> -1, tracks |-> {}]
NoError == "none"

\* variant of Max that takes the shorter duration
MaxTakesShorter(a, b) == IF a <= b THEN a ELSE b

\* Math.max(videoDuration, audioDuration), part_003:94
Max(a, b) == IF a >= b THEN a ELSE b

\* variant of BlobSize that builds the blob from no chunk
BlobSizeEmpty(s) == 0

\* The sum of the sizes in a chunk list: new Blob(chunks), part_003:125
RECURSIVE BlobSize(_)
BlobSize(s) == IF s = <<>> THEN 0 ELSE Head(s) + BlobSize(Tail(s))

\* Math.ceil(duration * frameRate), duration in ms, part_003:98
Ceil1000(n) == (n + 999) \div 1000
FrameCountOf(videoDuration, audioDuration) ==
  Ceil1000(Max(videoDuration, audioDuration) * frameRate)

\* frames the audio clip covers at frameRate: the audio has ended at frame i
\* when i >= AudioFrames(audioDuration), part_003:236-246
AudioFrames(audioDuration) == Ceil1000(audioDuration * frameRate)

\* variant of isSupported that never refuses
isSupportedAlways == TRUE

\* isSupported(), part_003:52-58: canvas and ctx exist and the three
\* constructors are defined; fixed for one environment
isSupported == supported

\* mouth rectangle of applyLipSyncEffect, part_003:295-298
mouthWidth(w) == (w * 4) \div 10
mouthHeight(h) == (h * 15) \div 100

\* ctx.getImageData(mouthX, mouthY, mouthWidth, mouthHeight) throws
\* IndexSizeError when the rectangle has no width or no height, part_003:301
GetImageDataThrows(cv) ==
  mouthWidth(cv.width) = 0 \/ mouthHeight(cv.height) = 0

\* video.currentTime = t (part_003:224,260,267) starts a seek.  A seek still
\* in flight is aborted by the new one (HTML seek algorithm), or is still
\* confirmed later: a user agent that answers a seek to the position the
\* video is already at by queueing 'seeked' at once confirms both
\* assignments of 0 at part_003:224 and 267.
SetCurrentTime(q, t) ==
  IF q = <<>> THEN {<<t>>} ELSE {<<t>>, Append(q, t)}

\* variant of NextFrame that skips every other frame
NextFrameSkips(i) == i + 2

\* currentFrame++, part_003:256
NextFrame(i) == i + 1

\* variant of LoopEnded without the test: every notification is a frame
LoopEndedNever(i, count) == FALSE

\* if (currentFrame >= frameCount), part_003:227: first test of the listener
LoopEnded(i, count) == i >= count

\* variant of MoreFrames that leaves the loop when the audio has ended
MoreFramesWhileAudio(i, count, audioFrames, cancelled) ==
  i < count /\ i < audioFrames

\* variant of MoreFrames that leaves the loop on a cancel request
MoreFramesUnlessCancelled(i, count, audioFrames, cancelled) ==
  i < count /\ ~cancelled

\* if (currentFrame < frameCount), part_003:259: the only test that decides
\* between the next seek and resolve()
MoreFrames(i, count, audioFrames, cancelled) == i < count

\* no job has been started: the state right after the module is loaded
NoJobStarted ==
  /\ lipSyncService = FALSE
  /\ canvas = [width |-> 300, height |-> 150, sizedBy |-> 0, shows |-> <<0, NoFrame>>]
  /\ pc = [j \in Jobs |-> "idle"]
  /\ video = [j \in Jobs |-> NoVideo]
  /\ audioDur = [j \in Jobs |-> 0]
  /\ frameCount = [j \in Jobs |-> 0]
  /\ currentFrame = [j \in Jobs |-> 0]
  /\ seekq = [j \in Jobs |-> <<>>]
  /\ composited = [j \in Jobs |-> <<>>]
  /\ amps = [j \in Jobs |-> <<>>]
  /\ chunks = [j \in Jobs |-> <<>>]
  /\ handles = [j \in Jobs |-> {}]
  /\ log = [j \in Jobs |-> <<>>]
  /\ raised = [j \in Jobs |-> {}]
  /\ err = [j \in Jobs |-> NoError]
  /\ result = [j \in Jobs |-> NoResult]
  /\ cancelAt = [j \in Jobs |-> NoFrame]

\* the calculations checked on their own are not in use
NoMapping == mIn = <<>> /\ mOut = <<>>
NoCompositing == cIn = <<>> /\ cOut = <<>>
NoEncoding == wavIn = <<>> /\ wavOut = <<>>
NoWindow == winIn = <<>> /\ winOut = <<>>
NoSimulation == sim = <<>>
NoStorage == store = <<>>

Init ==
  /\ supported \in BOOLEAN
  /\ mimeOK \in BOOLEAN
  /\ NoJobStarted
  /\ fcIn = <<0, 0>>
  /\ fcOut = NoFrame
  /\ NoMapping
  /\ NoCompositing
  /\ NoEncoding
  /\ NoWindow
  /\ NoSimulation
  /\ NoStorage

\* the promise of generateLipSync rejects: catch block rethrows, part_003:154-157
Reject(j, e) ==
  /\ pc' = [pc EXCEPT ![j] = "failed"]
  /\ err' = [err EXCEPT ![j] = e]
  /\ raised' = [raised EXCEPT ![j] = @ \cup {e}]

\* generateLipSync(videoSrc, audioBlob, profile), part_003:363-384 and 70-80,
\* up to the first await: the singleton is created on first use, the
\* capability probe is consulted, then loadVideo is called.
GenerateLipSyncUnsupported(j) ==
  /\ pc[j] = "idle"
  /\ ~isSupported
  /\ lipSyncService' = TRUE
  /\ Reject(j, "Lip sync not supported")
  /\ UNCHANGED <<rest, supported, mimeOK, canvas, video, audioDur, frameCount,
                 currentFrame, seekq, composited, amps, chunks, handles, log, result>>

GenerateLipSync(j) ==
  /\ pc[j] = "idle"
  /\ isSupported
  /\ lipSyncService' = TRUE
  /\ \E d \in Durs, a \in Durs, wh \in Dims :
       /\ video' = [video EXCEPT ![j] =
                      [duration |-> d, videoWidth |-> wh[1], videoHeight |-> wh[2]]]
       /\ audioDur' = [audioDur EXCEPT ![j] = a]
  /\ log' = [log EXCEPT ![j] = Append(@, "loadVideo")]
  /\ pc' = [pc EXCEPT ![j] = "loadVideo"]
  /\ UNCHANGED <<rest, supported, mimeOK, canvas, frameCount, currentFrame, seekq,
                 composited, amps, chunks, handles, raised, err, result>>

\* video.onerror of loadVideo, part_003:173-175
VideoError(j) ==
  /\ pc[j] = "loadVideo"
  /\ Reject(j, "Failed to load video")
  /\ UNCHANGED <<rest, supported, mimeOK, lipSyncService, canvas, video, audioDur,
                 frameCount, currentFrame, seekq, composited, amps, chunks, handles,
                 log, result>>

\* video.onloadedmetadata, part_003:169-171, and the continuation 83-89:
\* the shared canvas is resized (which clears it), the object URL and the
\* first AudioContext are created and the decode is started.
VideoLoaded(j) ==
  /\ pc[j] = "loadVideo"
  /\ canvas' = [width |-> video[j].videoWidth, height |-> video[j].videoHeight,
                sizedBy |-> j, shows |-> <<0, NoFrame>>]
  /\ handles' = [handles EXCEPT ![j] = @ \cup {"audioUrl", "audioContext"}]
  /\ log' = [log EXCEPT ![j] = Append(@, "decodeAudio")]
  /\ pc' = [pc EXCEPT ![j] = "loadAudio"]
  /\ UNCHANGED <<rest, supported, mimeOK, lipSyncService, video, audioDur, frameCount,
                 currentFrame, seekq, composited, amps, chunks, raised, err, result>>

\* loadAudioBuffer rejects, part_003:191-193
AudioDecodeError(j) ==
  /\ pc[j] = "loadAudio"
  /\ Reject(j, "decode failed")
  /\ UNCHANGED <<rest, supported, mimeOK, lipSyncService, canvas, video, audioDur,
                 frameCount, currentFrame, seekq, composited, amps, chunks, handles,
                 log, result>>

\* loadAudioBuffer resolves; continuation part_003:92-134 and the start of
\* processVideoFrames, 210-211: frameCount is computed, the canvas stream is
\* captured, the recorder is built and started, processVideoFrames opens a
\* second AudioContext and awaits the decode.
AudioDecoded(j) ==
  /\ pc[j] = "loadAudio"
  /\ mimeOK
  /\ frameCount' = [frameCount EXCEPT ![j] =
                      FrameCountOf(video[j].duration, audioDur[j])]
  /\ handles' = [handles EXCEPT ![j] =
                   @ \cup {"stream", "mediaRecorder", "audioContext2"}]
  /\ log' = [log EXCEPT ![j] =
               @ \o <<"captureStream", "recorderStart", "processVideoFrames">>]
  /\ pc' = [pc EXCEPT ![j] = "decodeFrames"]
  /\ UNCHANGED <<rest, supported, mimeOK, lipSyncService, canvas, video, audioDur,
                 currentFrame, seekq, composited, amps, chunks, raised, err, result>>

\* the same continuation when new MediaRecorder(stream, {mimeType: vp9})
\* throws NotSupportedError, part_003:110-113
RecorderUnsupported(j) ==
  /\ pc[j] = "loadAudio"
  /\ ~mimeOK
  /\ frameCount' = [frameCount EXCEPT ![j] =
                      FrameCountOf(video[j].duration, audioDur[j])]
  /\ handles' = [handles EXCEPT ![j] = @ \cup {"stream"}]
  /\ log' = [log EXCEPT ![j] = Append(@, "captureStream")]
  /\ Reject(j, "NotSupportedError")
  /\ UNCHANGED <<rest, supported, mimeOK, lipSyncService, canvas, video, audioDur,
                 currentFrame, seekq, composited, amps, chunks, result>>

\* processVideoFrames: arrayBuffer() or decodeAudioData rejects,
\* part_003:211-212; the async function rejects and generateLipSync rethrows
FramesDecodeError(j) ==
  /\ pc[j] = "decodeFrames"
  /\ Reject(j, "decode failed")
  /\ UNCHANGED <<rest, supported, mimeOK, lipSyncService, canvas, video, audioDur,
                 frameCount, currentFrame, seekq, composited, amps, chunks, handles,
                 log, result>>

\* processVideoFrames after its decode, part_003:215-268: currentFrame = 0,
\* the position is set to 0 twice and the 'seeked' listener is added
FramesStart(j) ==
  /\ pc[j] = "decodeFrames"
  /\ currentFrame' = [currentFrame EXCEPT ![j] = 0]
  /\ \E q1 \in SetCurrentTime(seekq[j], 0) :
       \E q2 \in SetCurrentTime(q1, 0) :
         seekq' = [seekq EXCEPT ![j] = q2]
  /\ pc' = [pc EXCEPT ![j] = "frames"]
  /\ UNCHANGED <<rest, supported, mimeOK, lipSyncService, canvas, video, audioDur,
                 frameCount, composited, amps, chunks, handles, log, raised, err,
                 result>>

\* resolve() of processVideoFrames (part_003:228,262) wakes generateLipSync,
\* part_003:137: mediaRecorder.stop().  A second resolve() is a no-op on
\* the promise; the log keeps that it was called.
ResolveFrames(j) ==
  IF pc[j] = "frames"
  THEN /\ pc' = [pc EXCEPT ![j] = "stopping"]
       /\ log' = [log EXCEPT ![j] = @ \o <<"resolve", "recorderStop">>]
  ELSE /\ log' = [log EXCEPT ![j] = Append(@, "resolve")]
       /\ UNCHANGED pc

\* 'seeked' listener, part_003:227-230: nothing is left to do
SeekedAfterEnd(j) ==
  /\ seekq[j] # <<>>
  /\ LoopEnded(currentFrame[j], frameCount[j])
  /\ seekq' = [seekq EXCEPT ![j] = Tail(@)]
  /\ ResolveFrames(j)
  /\ UNCHANGED <<rest, supported, mimeOK, lipSyncService, canvas, video, audioDur,
                 frameCount, currentFrame, composited, amps, chunks, handles,
                 raised, err, result>>

\* 'seeked' listener, part_003:232-263: draw the frame, composite the mouth,
\* advance, then seek to the next frame or resolve
SeekedFrame(j) ==
  /\ seekq[j] # <<>>
  /\ ~LoopEnded(currentFrame[j], frameCount[j])
  /\ ~GetImageDataThrows(canvas)
  /\ canvas' = [canvas EXCEPT !.shows = <<j, currentFrame[j]>>]
  /\ amps' = [amps EXCEPT ![j] = Append(@, currentFrame[j])]
  /\ composited' = [composited EXCEPT ![j] = Append(@, currentFrame[j])]
  /\ currentFrame' = [currentFrame EXCEPT ![j] = NextFrame(@)]
  /\ IF MoreFrames(NextFrame(currentFrame[j]), frameCount[j],
                   AudioFrames(audioDur[j]), cancelAt[j] # NoFrame)
     THEN /\ \E q \in SetCurrentTime(Tail(seekq[j]), NextFrame(currentFrame[j])) :
               seekq' = [seekq EXCEPT ![j] = q]
          /\ UNCHANGED <<pc, log>>
     ELSE /\ seekq' = [seekq EXCEPT ![j] = Tail(@)]
          /\ ResolveFrames(j)
  /\ UNCHANGED <<rest, supported, mimeOK, lipSyncService, video, audioDur, frameCount,
                 chunks, handles, raised, err, result>>

\* 'seeked' listener when getImageData throws, part_003:233-253 and 301: the
\* frame has been drawn and its amplitude computed, the exception leaves the
\* listener, nothing catches it, currentFrame is not advanced and no further
\* seek is issued
SeekedThrows(j) ==
  /\ seekq[j] # <<>>
  /\ ~LoopEnded(currentFrame[j], frameCount[j])
  /\ GetImageDataThrows(canvas)
  /\ seekq' = [seekq EXCEPT ![j] = Tail(@)]
  /\ canvas' = [canvas EXCEPT !.shows = <<j, currentFrame[j]>>]
  /\ amps' = [amps EXCEPT ![j] = Append(@, currentFrame[j])]
  /\ raised' = [raised EXCEPT ![j] = @ \cup {"IndexSizeError"}]
  /\ UNCHANGED <<rest, supported, mimeOK, lipSyncService, pc, video, audioDur,
                 frameCount, currentFrame, composited, chunks, handles, log,
                 err, result>>

\* mediaRecorder.ondataavailable, part_003:116-120: the recorder hands over
\* what it gathered; an empty blob is dropped
DataAvailable(j) ==
  /\ pc[j] = "stopping"
  /\ \E size \in 0..MaxChunk :
       chunks' = [chunks EXCEPT ![j] = IF size > 0 THEN Append(@, size) ELSE @]
  /\ pc' = [pc EXCEPT ![j] = "flushed"]
  /\ UNCHANGED <<rest, supported, mimeOK, lipSyncService, canvas, video, audioDur,
                 frameCount, currentFrame, seekq, composited, amps, handles, log,
                 raised, err, result>>

\* combineVideoAndAudio(videoBlob, audioBlob), part_003:340-344: returns
\* the video blob
combineVideoAndAudio(videoBlob, audioBlob) == videoBlob

\* mediaRecorder.onstop, part_003:124-127, and the continuation 140-153:
\* the blob is built from the chunks, combined, the two object URLs are
\* revoked and the result is returned
RecorderStopped(j) ==
  /\ pc[j] = "flushed"
  /\ result' = [result EXCEPT ![j] =
                  combineVideoAndAudio(
                    [bytes |-> BlobSize(chunks[j]), tracks |-> {"video"}],
                    [bytes |-> audioDur[j], tracks |-> {"audio"}])]
  /\ handles' = [handles EXCEPT ![j] = @ \ {"audioUrl", "mediaRecorder"}]
  /\ log' = [log EXCEPT ![j] = Append(@, "combineVideoAndAudio")]
  /\ pc' = [pc EXCEPT ![j] = "done"]
  /\ UNCHANGED <<rest, supported, mimeOK, lipSyncService, canvas, video, audioDur,
                 frameCount, currentFrame, seekq, composited, amps, chunks, raised,
                 err>>

\* The caller decides to cancel a job whose frame loop is running.
\* LipSyncOptions (part_003:13-18) has no field to pass the request and no
\* handler reads one: the request is recorded, nothing else changes.
RequestCancel(j) ==
  /\ pc[j] = "frames"
  /\ cancelAt[j] = NoFrame
  /\ cancelAt' = [cancelAt EXCEPT ![j] = Len(composited[j])]
  /\ UNCHANGED <<fcIn, fcOut, supported, mimeOK, lipSyncService, canvas, pc,
                 video, audioDur, frameCount, currentFrame, seekq, composited, amps,
                 chunks, handles, log, raised, err, result, mIn, mOut, cIn,
                 cOut, wavIn, wavOut, winIn, winOut, sim, store>>

Next ==
  \E j \in Jobs :
    \/ RequestCancel(j)
    \/ GenerateLipSyncUnsupported(j)
    \/ GenerateLipSync(j)
    \/ VideoError(j)
    \/ VideoLoaded(j)
    \/ AudioDecodeError(j)
    \/ AudioDecoded(j)
    \/ RecorderUnsupported(j)
    \/ FramesDecodeError(j)
    \/ FramesStart(j)
    \/ SeekedAfterEnd(j)
    \/ SeekedFrame(j)
    \/ SeekedThrows(j)
    \/ DataAvailable(j)
    \/ RecorderStopped(j)

Spec == Init /\ [][Next]_vars

\* ---- one job alone, with every seek confirmed in the end ----
\* The user agent confirms a seek it has not aborted: the 'seeked'
\* listener of a job with a seek in flight runs sooner or later.
SeekConfirmed(j) == SeekedAfterEnd(j) \/ SeekedFrame(j) \/ SeekedThrows(j)

NextAlone ==
  \E j \in {1} :
    \/ RequestCancel(j)
    \/ GenerateLipSyncUnsupported(j)
    \/ GenerateLipSync(j)
    \/ VideoError(j)
    \/ VideoLoaded(j)
    \/ AudioDecodeError(j)
    \/ AudioDecoded(j)
    \/ RecorderUnsupported(j)
    \/ FramesDecodeError(j)
    \/ FramesStart(j)
    \/ SeekedAfterEnd(j)
    \/ SeekedFrame(j)
    \/ SeekedThrows(j)
    \/ DataAvailable(j)
    \/ RecorderStopped(j)

SpecAlone == Init /\ [][NextAlone]_vars /\ WF_vars(SeekConfirmed(1))

\* ---- the frame count calculation on its own, part_003:92-98 ----
InitFC ==
  /\ supported = TRUE
  /\ mimeOK = TRUE
  /\ NoJobStarted
  /\ fcIn \in FCDurs \X FCDurs
  /\ fcOut = NoFrame
  /\ NoMapping
  /\ NoCompositing
  /\ NoEncoding
  /\ NoWindow
  /\ NoSimulation
  /\ NoStorage

ApplyFrameCount ==
  /\ fcOut = NoFrame
  /\ fcOut' = FrameCountOf(fcIn[1], fcIn[2])
  /\ UNCHANGED <<fcIn, cancelAt, supported, mimeOK, lipSyncService, canvas, pc,
                 video, audioDur, frameCount, currentFrame, seekq, composited, amps,
                 chunks, handles, log, raised, err, result, mIn, mOut, cIn,
                 cOut, wavIn, wavOut, winIn, winOut, sim, store>>

NextFC == ApplyFrameCount

SpecFC == InitFC /\ [][NextFC]_vars

\* ---- the mouth mapping on its own, part_003:274-316, media.ts:221-231 ----
\* An amplitude is a number of 90ths (n stands for n / 90), so is
\* normalizedAmplitude; intensity is in tenths, effectiveAmplitude in
\* 900ths; sines are rounded to 10000ths and openFactor is in 100000ths.
MaxAmpSteps == 24     \* amplitudes 0, 1/90, .. MaxAmpSteps/90
AmpSteps == 0..MaxAmpSteps
Profiles == {"default", "subtle", "exaggerated", "realistic"}

Min(a, b) == IF a <= b THEN a ELSE b

\* variant of normalizedAmplitude without the upper limit
normalizedAmplitudeUnclamped(amplitude) == amplitude * 5

\* Math.min(1, amplitude * 5), part_003:276
normalizedAmplitude(amplitude) == Min(90, amplitude * 5)

\* part_003:279-283
intensity(profile) ==
  IF profile = "subtle" THEN 5
  ELSE IF profile = "exaggerated" THEN 20
  ELSE IF profile = "realistic" THEN 12
  ELSE 10

\* normalizedAmplitude * intensity, part_003:285
effectiveAmplitude(amplitude, profile) ==
  normalizedAmplitude(amplitude) * intensity(profile)

\* Math.sin for whole degrees, rounded to 10000ths
SinTable ==
 << 0, 175, 349, 523, 698, 872, 1045, 1219, 1392, 1564,
    1736, 1908, 2079, 2250, 2419, 2588, 2756, 2924, 3090, 3256,
    3420, 3584, 3746, 3907, 4067, 4226, 4384, 4540, 4695, 4848,
    5000, 5150, 5299, 5446, 5592, 5736, 5878, 6018, 6157, 6293,
    6428, 6561, 6691, 6820, 6947, 7071, 7193, 7314, 7431, 7547,
    7660, 7771, 7880, 7986, 8090, 8192, 8290, 8387, 8480, 8572,
    8660, 8746, 8829, 8910, 8988, 9063, 9135, 9205, 9272, 9336,
    9397, 9455, 9511, 9563, 9613, 9659, 9703, 9744, 9781, 9816,
    9848, 9877, 9903, 9925, 9945, 9962, 9976, 9986, 9994, 9998,
    10000 >>
\* Math.sin(Math.PI) is 1.2e-16 in doubles, not 0: it stands as 1, the
\* smallest positive step, so that its sign is kept
SinHalfTurn(deg) ==
  IF deg = 180 THEN 1
  ELSE IF deg <= 90 THEN SinTable[deg + 1] ELSE SinTable[181 - deg]
Sin(deg) == IF deg <= 180 THEN SinHalfTurn(deg) ELSE 0 - SinHalfTurn(deg - 180)

\* Math.sin(effectiveAmplitude * Math.PI) * 0.7, part_003:316; the angle
\* effectiveAmplitude * 180 degrees is eff / 5 for eff in 900ths
openFactor(eff) == Sin(eff \div 5) * 7

\* variant of mouthPosition whose thresholds belong to the lower state
mouthPositionInclusive(amplitude) ==
  IF amplitude <= 40 THEN 0
  ELSE IF amplitude <= 100 THEN 1
  ELSE IF amplitude <= 160 THEN 2
  ELSE 3

\* the rank of the mouth position chosen for an amplitude of the analyser
\* (0..255), media.ts:221-231: closed, slightly, medium, wide
mouthPosition(amplitude) ==
  IF amplitude < 40 THEN 0
  ELSE IF amplitude < 100 THEN 1
  ELSE IF amplitude < 160 THEN 2
  ELSE 3

\* the analyser amplitude that stands at step n of the amplitude scale
ByteAmplitude(n) == n * 10

InitMapper ==
  /\ supported = TRUE
  /\ mimeOK = TRUE
  /\ NoJobStarted
  /\ fcIn = <<0, 0>>
  /\ fcOut = NoFrame
  /\ mIn \in {<<[a1 |-> x, a2 |-> y, profile |-> p]>> :
                x \in AmpSteps, y \in AmpSteps, p \in Profiles}
  /\ mOut = <<>>
  /\ NoCompositing
  /\ NoEncoding
  /\ NoWindow
  /\ NoSimulation
  /\ NoStorage

ApplyMapper ==
  /\ mOut = <<>>
  /\ LET in == mIn[1]
         e1 == effectiveAmplitude(in.a1, in.profile)
         e2 == effectiveAmplitude(in.a2, in.profile)
     IN mOut' = <<[eff1 |-> e1, eff2 |-> e2,
                   open1 |-> openFactor(e1), open2 |-> openFactor(e2),
                   rank1 |-> mouthPosition(ByteAmplitude(in.a1)),
                   rank2 |-> mouthPosition(ByteAmplitude(in.a2))]>>
  /\ UNCHANGED <<jobVars, fcIn, fcOut, mIn, cIn, cOut, wavIn, wavOut, winIn,
                 winOut, sim, store>>

NextMapper == ApplyMapper

SpecMapper == InitMapper /\ [][NextMapper]_vars

\* ---- applyLipSyncEffect on its own, part_003:274-335 ----
\* A raster is a function from <<x, y>> to <<r, g, b, a>>.  Two calls are
\* made one after the other on the one canvas, each after drawImage has
\* put a video frame on it, as the 'seeked' listener does (part_003:233,253).
MaxRaster == 1        \* video frames 0 .. MaxRaster are offered
Rasters == 0..MaxRaster
CanvasSizes == {<<5, 27>>, <<8, 27>>}
EffectAmps == {0, 1, 5, 9, 10, 17, 18}

Pixels(w, h) == (0..(w - 1)) \X (0..(h - 1))

\* the pixels of video frame k at the size of the canvas
Frame(k, w, h) ==
  [p \in Pixels(w, h) |->
     << (k * 97 + 31 * p[1] + 7 * p[2] + 3) % 256,
        (k * 53 + 5 * p[1] + 11 * p[2] + 100) % 256,
        (k * 29 + p[1] + 3 * p[2] + 201) % 256,
        255 >>]

\* variant of drawImage that leaves a canvas already drawn on as it is
drawImageOnce(cv, frame) == IF DOMAIN cv = {} THEN frame ELSE cv

\* ctx.drawImage(video, 0, 0, width, height), part_003:233: the frame
\* covers the whole canvas
drawImage(cv, frame) == frame

\* Math.floor(width * 0.3), Math.floor(height * 0.65), part_003:295-296
mouthX(w) == (w * 3) \div 10
mouthY(h) == (h * 65) \div 100

\* storing the number num / den (>= 0) in a Uint8ClampedArray: rounded to
\* the nearest integer, a half to the even one, and limited to 255
ToUint8Clamped(num, den) ==
  LET q == num \div den
      r == num % den
      n == IF 2 * r < den THEN q
           ELSE IF 2 * r > den THEN q + 1
           ELSE IF q % 2 = 0 THEN q ELSE q + 1
  IN Min(255, n)

\* variant of Darken that takes a fifth off
DarkenLess(c) == ToUint8Clamped(Max(0, c * 8), 10)

\* Math.max(0, c * 0.5), part_003:320-322
Darken(c) == ToUint8Clamped(Max(0, c * 5), 10)

\* Math.min(255, r * 1.2), part_003:325
Redden(c) == ToUint8Clamped(Min(2550, c * 12), 10)

\* Math.max(0, c * 0.8), part_003:326-327
Fade(c) == ToUint8Clamped(Max(0, c * 8), 10)

\* distanceFromCenter < mouthHeight * 0.2 * openFactor, part_003:318, for
\* d2 = 4 * distanceFromCenter^2 and open in 100000ths; the limit is cut
\* to 1000ths for a pixel off the centre
InMouthOpening(d2, mh, open) ==
  /\ open > 0
  /\ \/ d2 = 0
     \/ LET q == (mh * open) \div 250 IN d2 * 1000000 < q * q

\* y > centerY - effectiveAmplitude * 10 && y < centerY + effectiveAmplitude * 10,
\* part_003:323, for dy2 = 2 * (y - centerY) and eff in 900ths
InLipBand(dy2, eff) ==
  /\ 90 * dy2 > 0 - 2 * eff
  /\ 90 * dy2 < 2 * eff

\* variant of EffectPixel without the test of the distance
EffectPixelWholeRect(px, x, y, mw, mh, eff) ==
  IF InMouthOpening((2 * x - mw) * (2 * x - mw) + (2 * y - mh) * (2 * y - mh),
                    mh, openFactor(eff))
  THEN <<Darken(px[1]), Darken(px[2]), Darken(px[3]), px[4]>>
  ELSE IF InLipBand(2 * y - mh, eff)
       THEN <<Redden(px[1]), Fade(px[2]), Fade(px[3]), px[4]>>
       ELSE px

\* the body of the pixel loop, part_003:306-329, for the pixel at <<x, y>> of
\* the mouth rectangle
EffectPixel(px, x, y, mw, mh, eff) ==
  LET dx2 == 2 * x - mw
      dy2 == 2 * y - mh
      d2 == dx2 * dx2 + dy2 * dy2
  IN IF d2 < mh * mh
     THEN IF InMouthOpening(d2, mh, openFactor(eff))
          THEN <<Darken(px[1]), Darken(px[2]), Darken(px[3]), px[4]>>
          ELSE IF InLipBand(dy2, eff)
               THEN <<Redden(px[1]), Fade(px[2]), Fade(px[3]), px[4]>>
               ELSE px
     ELSE px

\* ctx.getImageData(x0, y0, mw, mh), part_003:301: a copy of the rectangle
getImageData(cv, x0, y0, mw, mh) ==
  [q \in Pixels(mw, mh) |-> cv[<<x0 + q[1], y0 + q[2]>>]]

\* variant of putImageData that writes the rectangle at the origin
putImageDataAtOrigin(cv, data, x0, y0, mw, mh) ==
  [p \in DOMAIN cv |->
     IF p[1] < mw /\ p[2] < mh THEN data[p] ELSE cv[p]]

\* ctx.putImageData(mouthData, x0, y0), part_003:334: the canvas with the
\* rectangle written back
putImageData(cv, data, x0, y0, mw, mh) ==
  [p \in DOMAIN cv |->
     IF /\ p[1] >= x0 /\ p[1] < x0 + mw
        /\ p[2] >= y0 /\ p[2] < y0 + mh
     THEN data[<<p[1] - x0, p[2] - y0>>]
     ELSE cv[p]]

\* applyLipSyncEffect(amplitude, profile) on a canvas of w x h, part_003:274-335
applyLipSyncEffect(cv, w, h, amplitude, profile) ==
  LET eff == effectiveAmplitude(amplitude, profile)
      mw == mouthWidth(w)
      mh == mouthHeight(h)
      mouthData == getImageData(cv, mouthX(w), mouthY(h), mw, mh)
      changed == [q \in Pixels(mw, mh) |->
                    EffectPixel(mouthData[q], q[1], q[2], mw, mh, eff)]
  IN putImageData(cv, changed, mouthX(w), mouthY(h), mw, mh)

InitCompositor ==
  /\ supported = TRUE
  /\ mimeOK = TRUE
  /\ NoJobStarted
  /\ fcIn = <<0, 0>>
  /\ fcOut = NoFrame
  /\ NoMapping
  /\ cIn \in {<<[size |-> sz, frame |-> f, amplitude |-> a, profile |-> p]>> :
                sz \in CanvasSizes,
                f \in Rasters \X Rasters,
                a \in EffectAmps \X EffectAmps,
                p \in Profiles \X Profiles}
  /\ cOut = <<>>
  /\ NoEncoding
  /\ NoWindow
  /\ NoSimulation
  /\ NoStorage

\* one run of the drawing part of the 'seeked' listener: the frame is drawn
\* on the canvas and the effect applied to the canvas; cOut keeps what the
\* canvas holds after each run, the last entry being the canvas as it is
ApplyEffect ==
  /\ Len(cOut) < 2
  /\ LET in == cIn[1]
         n == Len(cOut) + 1
         w == in.size[1]
         h == in.size[2]
         cv == IF cOut = <<>> THEN <<>> ELSE cOut[Len(cOut)]
         drawn == drawImage(cv, Frame(in.frame[n], w, h))
     IN cOut' = Append(cOut,
                  applyLipSyncEffect(drawn, w, h, in.amplitude[n], in.profile[n]))
  /\ UNCHANGED <<jobVars, fcIn, fcOut, mIn, mOut, cIn, wavIn, wavOut, winIn,
                 winOut, sim, store>>

NextCompositor == ApplyEffect

SpecCompositor == InitCompositor /\ [][NextCompositor]_vars

\* ---- audioBufferToWav on its own, part_005:248-297 ----
\* A sample of the AudioBuffer is a number of quarters (k stands for k / 4);
\* the caller's samples pass 1 in size by the noise it adds (part_005:140-142).
\* The one caller passes a mono buffer of a second or more (part_005:113-114);
\* the function takes the channel count from the buffer it is given and
\* encodes each sample on its own, so short buffers stand for long ones.
MaxWavLen == 2        \* buffers of 0 .. MaxWavLen samples, and one second
SampleSteps == -6..6
SampleRates == {8000, 16000, 44100}
OneSecond ==
  [numberOfChannels |-> 1, sampleRate |-> 16000, channel0 |-> [i \in 1..16000 |-> 0]]
RECURSIVE SeqsUpTo(_, _)
SeqsUpTo(S, n) ==
  IF n = 0 THEN {<<>>}
  ELSE LET shorter == SeqsUpTo(S, n - 1)
       IN shorter \cup {Append(q, x) : q \in {r \in shorter : Len(r) = n - 1}, x \in S}
AudioBuffers ==
  {[numberOfChannels |-> c, sampleRate |-> r, channel0 |-> q] :
     c \in {1, 2}, r \in SampleRates, q \in SeqsUpTo(SampleSteps, MaxWavLen)}
    \cup {OneSecond}

\* numChannels * bytesPerSample, part_005:254-255
blockAlign(numChannels) == numChannels * (16 \div 8)

\* variant of dataSize that counts samples, not bytes
dataSizeInSamples(samples, numChannels) == samples

\* samples * blockAlign, part_005:259
dataSize(samples, numChannels) == samples * blockAlign(numChannels)

\* the number n / d cut to an integer towards zero, as DataView.setInt16
\* does with a fraction
Trunc(n, d) == IF n >= 0 THEN n \div d ELSE 0 - ((0 - n) \div d)

\* DataView.setInt16 stores a number cut to a whole number and wrapped
\* into 16 bits
setInt16(v) == ((v + 32768) % 65536) - 32768

\* variant of sample16bitOf without the limits -1 and 1
sample16bitUnclamped(num, den) ==
  IF num < 0 THEN setInt16(Trunc(9 * num * 32768, 10 * den))
  ELSE setInt16(Trunc(9 * num * 32767, 10 * den))

\* the int16 written for the sample num / den, part_005:291-293: limited
\* to -1..1, times the volume 0.9, times 0x8000 below zero and 0x7FFF else
sample16bitOf(num, den) ==
  LET clamped == Max(0 - den, Min(den, num))
  IN IF clamped < 0 THEN setInt16(Trunc(9 * clamped * 32768, 10 * den))
     ELSE setInt16(Trunc(9 * clamped * 32767, 10 * den))

\* variant of sample16bit that scales every sample by 0x7FFF
sample16bitOneScale(k) ==
  LET clamped == Max(-4, Min(4, k)) IN Trunc(9 * clamped * 32767, 40)

\* the int16 written for the sample k / 4, part_005:288-293
sample16bit(k) == sample16bitOf(k, 4)

\* audioBufferToWav(audioBuffer), part_005:248-297: the fields of the
\* header and the int16 slots after byte 44; the slots the loop does not
\* write keep the 0 of the new ArrayBuffer
audioBufferToWav(audioBuffer) ==
  LET numChannels == audioBuffer.numberOfChannels
      sampleRate == audioBuffer.sampleRate
      buffer == audioBuffer.channel0
      samples == Len(buffer)
      size == dataSize(samples, numChannels)
  IN [ChunkSize |-> 36 + size,
      Subchunk1Size |-> 16,
      AudioFormat |-> 1,
      NumChannels |-> numChannels,
      SampleRate |-> sampleRate,
      ByteRate |-> sampleRate * blockAlign(numChannels),
      BlockAlign |-> blockAlign(numChannels),
      BitsPerSample |-> 16,
      Subchunk2Size |-> size,
      byteLength |-> 44 + size,
      data |-> [i \in 1..(size \div 2) |->
                  IF i <= samples THEN sample16bit(buffer[i]) ELSE 0]]

\* decoding an int16 of the file as the specification describes it: the
\* fraction v / 0x8000 below zero and v / 0x7FFF else, as <<v, divisor>>
decodeSample(v) == IF v < 0 THEN <<v, 32768>> ELSE <<v, 32767>>

InitWav ==
  /\ supported = TRUE
  /\ mimeOK = TRUE
  /\ NoJobStarted
  /\ fcIn = <<0, 0>>
  /\ fcOut = NoFrame
  /\ NoMapping
  /\ NoCompositing
  /\ wavIn \in {<<b>> : b \in AudioBuffers}
  /\ wavOut = <<>>
  /\ NoWindow
  /\ NoSimulation
  /\ NoStorage

\* the buffer is encoded
EncodeWav ==
  /\ wavOut = <<>>
  /\ wavOut' = <<audioBufferToWav(wavIn[1])>>
  /\ UNCHANGED <<jobVars, fcIn, fcOut, mIn, mOut, cIn, cOut, wavIn, winIn,
                 winOut, sim, store>>

\* the file is decoded again
DecodeWav ==
  /\ Len(wavOut) = 1
  /\ wavOut' = Append(wavOut,
                 [i \in 1..Len(wavOut[1].data) |-> decodeSample(wavOut[1].data[i])])
  /\ UNCHANGED <<jobVars, fcIn, fcOut, mIn, mOut, cIn, cOut, wavIn, winIn,
                 winOut, sim, store>>

NextWav == EncodeWav \/ DecodeWav

SpecWav == InitWav /\ [][NextWav]_vars

\* ---- one turn of the sample loop of audioBufferToWav, part_005:290-294 ----
\* The sample is the fraction num / den: quarters from -1.5 to 1.5, and
\* 40000ths around zero, where the int16 is small.
MaxFine == 40         \* samples -MaxFine/40000 .. MaxFine/40000
FineSamples ==
  {[num |-> k, den |-> 4] : k \in SampleSteps}
    \cup {[num |-> n, den |-> 40000] : n \in (0 - MaxFine)..MaxFine}

InitSample ==
  /\ supported = TRUE
  /\ mimeOK = TRUE
  /\ NoJobStarted
  /\ fcIn = <<0, 0>>
  /\ fcOut = NoFrame
  /\ NoMapping
  /\ NoCompositing
  /\ wavIn \in {<<x>> : x \in FineSamples}
  /\ wavOut = <<>>
  /\ NoWindow
  /\ NoSimulation
  /\ NoStorage

\* buffer[i] is written to the file
EncodeSample ==
  /\ wavOut = <<>>
  /\ wavOut' = <<sample16bitOf(wavIn[1].num, wavIn[1].den)>>
  /\ UNCHANGED <<jobVars, fcIn, fcOut, mIn, mOut, cIn, cOut, wavIn, winIn,
                 winOut, sim, store>>

NextSample == EncodeSample

SpecSample == InitSample /\ [][NextSample]_vars

\* ---- the amplitude of a frame on its own, part_003:235-250 ----
\* The decoded buffer is given by its length and by which of the test
\* signals it holds; a sample is a number of quarters, -4 .. 4.  The
\* amplitude is kept as the sum of the window and its divisor.
MaxWinFrame == 12     \* frame indices 0 .. MaxWinFrame, each with its successor
WinRates == {8000, 16000, 44100}
WinLengths == {0, 700, 1600, 8000, 20000}
WinSignals == {0, 1}

\* channelData[n] of test signal g
channelData(g, n) == ((n * 7 + g * 3) % 9) - 4

Abs(x) == IF x >= 0 THEN x ELSE 0 - x

\* the pairs <<sampleRate, frame>>, for the rates above and frames up to 41,
\* whose product (frame / 30) * sampleRate is a whole number in exact
\* arithmetic and falls just below it in doubles
ShortInDoubles == {<<44100, 11>>, <<44100, 21>>, <<44100, 22>>}

\* Math.floor((currentFrame / frameRate) * sampleRate), part_003:236-239
audioSampleIndex(i, sampleRate) ==
  (i * sampleRate) \div frameRate
    - (IF <<sampleRate, i>> \in ShortInDoubles THEN 1 ELSE 0)

\* variant of samplesPerFrame that rounds to the nearest integer
samplesPerFrameRounded(sampleRate) == (2 * sampleRate + frameRate) \div (2 * frameRate)

\* Math.floor(sampleRate / frameRate), part_003:240
samplesPerFrame(sampleRate) == sampleRate \div frameRate

\* variant of SampleOrNothing that reads on from the start of the buffer
SampleWrapped(g, length, index) ==
  IF length = 0 THEN 0 ELSE Abs(channelData(g, index % length))

\* what one turn of the loop adds, part_003:245-248
SampleOrNothing(g, length, index) ==
  IF index < length THEN Abs(channelData(g, index)) ELSE 0

\* the loop of part_003:243-249 over the turns lo .. hi - 1, by halves
RECURSIVE AmplitudeSum(_, _, _, _, _)
AmplitudeSum(g, length, first, lo, hi) ==
  IF lo >= hi THEN 0
  ELSE IF hi = lo + 1 THEN SampleOrNothing(g, length, first + lo)
  ELSE LET mid == (lo + hi) \div 2
       IN AmplitudeSum(g, length, first, lo, mid)
            + AmplitudeSum(g, length, first, mid, hi)

\* the amplitude of frame i, part_003:235-250
FrameAmplitude(in, i) ==
  LET first == audioSampleIndex(i, in.sampleRate)
      spf == samplesPerFrame(in.sampleRate)
  IN [frame |-> i, first |-> first, samplesPerFrame |-> spf,
      sum |-> AmplitudeSum(in.signal, in.length, first, 0, spf),
      divisor |-> spf]

InitWindow ==
  /\ supported = TRUE
  /\ mimeOK = TRUE
  /\ NoJobStarted
  /\ fcIn = <<0, 0>>
  /\ fcOut = NoFrame
  /\ NoMapping
  /\ NoCompositing
  /\ NoEncoding
  /\ winIn \in {<<[sampleRate |-> r, length |-> n, signal |-> g, frame |-> i]>> :
                  r \in WinRates, n \in WinLengths, g \in WinSignals,
                  i \in 0..MaxWinFrame}
  /\ winOut = <<>>
  /\ NoSimulation
  /\ NoStorage

\* the amplitude part of one run of the 'seeked' listener; the second run
\* is for the next frame
ComputeAmplitude ==
  /\ Len(winOut) < 2
  /\ winOut' = Append(winOut, FrameAmplitude(winIn[1], winIn[1].frame + Len(winOut)))
  /\ UNCHANGED <<jobVars, calcVars, winIn, sim, store>>

NextWindow == ComputeAmplitude

SpecWindow == InitWindow /\ [][NextWindow]_vars

\* ---- simulateLipSync, media.ts:121-262 ----
\* One call: the recorder on the canvas stream, the audio element and the
\* animation loop.  The analyser is given by the sum of the 18 bins the loop
\* reads at a tick.
MaxSimFrames == 4     \* frames one call may draw
VoiceBins == 18       \* dataArray.slice(2, 20), media.ts:218
\* sums of the 18 bytes: silence, full scale, the two sides of each
\* threshold, and 5 %, 20 % and 90 % of full scale
VoiceSums == {0, 229, 230, 719, 720, 918, 1799, 1800, 2879, 2880, 4131, 4590}

\* media.ts:170-175
mouthPositions ==
  << [name |-> "closed", y |-> 0], [name |-> "slightly", y |-> 2],
     [name |-> "medium", y |-> 4], [name |-> "wide", y |-> 6] >>

\* variant of VoiceMean that divides by the length of the whole dataArray
VoiceMeanOverAllBins(sum) == sum \div 128

\* the whole part of the mean of the 18 bins, media.ts:218-219; the
\* thresholds are whole numbers, so the fraction decides nothing
VoiceMean(sum) == sum \div VoiceBins

\* variant of TickSchedulesNext: the loop goes on after the stop
TickSchedulesAlways(audio) == TRUE

\* whether a tick reaches requestAnimationFrame, media.ts:209-212,257
TickSchedulesNext(audio) == audio = "playing"

\* what a tick leaves on the canvas, media.ts:221-254: the frame of the
\* video, and over it the ellipse unless the mouth is closed
DrawnFrame(sum) ==
  LET chosen == mouthPositions[mouthPosition(VoiceMean(sum)) + 1]
  IN [sum |-> sum, mouth |-> chosen.name,
      ellipse |-> IF chosen.name # "closed" THEN chosen.y ELSE -1]

\* animate, media.ts:208-258, on the call s with the analyser at sum
animate(s, sum) ==
  IF s.audio # "playing"
  THEN [s EXCEPT !.ticks = @ + 1,
                 !.stops = @ + 1,
                 !.stopping = (s.recorder = "recording"),
                 !.recorder = "inactive",
                 !.raf = TickSchedulesNext(s.audio)]
  ELSE [s EXCEPT !.ticks = @ + 1,
                 !.frames = Append(@, DrawnFrame(sum)),
                 !.raf = TickSchedulesNext(s.audio)]

InitSim ==
  /\ supported = TRUE
  /\ mimeOK \in BOOLEAN
  /\ NoJobStarted
  /\ fcIn = <<0, 0>>
  /\ fcOut = NoFrame
  /\ NoMapping
  /\ NoCompositing
  /\ NoEncoding
  /\ NoWindow
  /\ sim = [pc |-> "idle", audio |-> "paused", recorder |-> "inactive",
            stopping |-> FALSE, raf |-> FALSE, ticks |-> 0, stops |-> 0,
            frames |-> <<>>, chunks |-> 0, promise |-> "none", blob |-> -1]
  /\ NoStorage

besidesSim == <<jobVars, calcVars, winIn, winOut, store>>

\* new MediaRecorder throws for a mime type it cannot record, media.ts:160
SimulateLipSyncUnsupported ==
  /\ sim.pc = "idle"
  /\ ~mimeOK
  /\ sim' = [sim EXCEPT !.pc = "done", !.promise = "rejected"]
  /\ UNCHANGED besidesSim

\* the call up to its return, media.ts:121-261: start(), play(), which
\* takes effect unless the page may not play, and the first animate()
SimulateLipSync ==
  /\ sim.pc = "idle"
  /\ mimeOK
  /\ \E allowed \in BOOLEAN, sum \in VoiceSums :
       sim' = animate([sim EXCEPT !.pc = "running",
                                  !.promise = "pending",
                                  !.recorder = "recording",
                                  !.audio = IF allowed THEN "playing" ELSE "paused"],
                      sum)
  /\ UNCHANGED besidesSim

\* the callback of requestAnimationFrame, media.ts:257
AnimationFrame ==
  /\ sim.pc = "running"
  /\ sim.raf
  /\ sim.audio = "playing" => Len(sim.frames) < MaxSimFrames
  /\ \E sum \in VoiceSums : sim' = animate([sim EXCEPT !.raf = FALSE], sum)
  /\ UNCHANGED besidesSim

\* the audio plays to its end
AudioEnded ==
  /\ sim.pc = "running"
  /\ sim.audio = "playing"
  /\ sim' = [sim EXCEPT !.audio = "ended"]
  /\ UNCHANGED besidesSim

\* the browser pauses the audio
AudioPaused ==
  /\ sim.pc = "running"
  /\ sim.audio = "playing"
  /\ sim' = [sim EXCEPT !.audio = "paused"]
  /\ UNCHANGED besidesSim

\* and lets it play again
AudioResumed ==
  /\ sim.pc = "running"
  /\ sim.audio = "paused"
  /\ sim.ticks > 0
  /\ sim' = [sim EXCEPT !.audio = "playing"]
  /\ UNCHANGED besidesSim

\* the recorder hands over what it recorded and fires 'stop':
\* ondataavailable, media.ts:163-167, then onstop, media.ts:179-186
SimRecorderStopped ==
  /\ sim.stopping
  /\ \E size \in 0..MaxChunk :
       LET n == sim.chunks + (IF size > 0 THEN 1 ELSE 0)
       IN sim' = [sim EXCEPT !.stopping = FALSE, !.chunks = n,
                             !.blob = n, !.promise = "resolved", !.pc = "done"]
  /\ UNCHANGED besidesSim

NextSim ==
  \/ SimulateLipSyncUnsupported
  \/ SimulateLipSync
  \/ AnimationFrame
  \/ AudioEnded
  \/ AudioPaused
  \/ AudioResumed
  \/ SimRecorderStopped

SpecSim == InitSim /\ [][NextSim]_vars

\* ---- MemStorage, part_016:35-181 ----
\* The three maps, the three counters and, for the properties, the ids
\* handed out so far.  A record keeps the fields that tell records apart.
MaxCreates == 2       \* creations per kind after the constructor
MaxMessages == 2      \* messages one conversation may hold
UserNames == {"ann"}
NewCharacters == {[name |-> "New", description |-> "d"]}
CharacterUpdates == {[name |-> "Renamed"]}
Messages == {"hi"}

\* Map.set and Map.delete
Put(map, id, rec) ==
  [k \in DOMAIN map \cup {id} |-> IF k = id THEN rec ELSE map[k]]
Remove(map, id) == [k \in DOMAIN map \ {id} |-> map[k]]

\* { ...a, ...b }
Spread(a, b) ==
  [f \in DOMAIN a \cup DOMAIN b |-> IF f \in DOMAIN b THEN b[f] ELSE a[f]]

\* variant of IssueId that numbers a record by the size of its map
IssueIdBySize(counter, map) == Cardinality(DOMAIN map) + 1

\* const id = this.userId++ and the like, part_016:89,105,144: the id is
\* the counter, whatever the map holds
IssueId(counter, map) == counter

\* createCharacter, part_016:104-114, on the store st
createCharacter(st, insertCharacter) ==
  LET id == IssueId(st.characterId, st.characters)
  IN [st EXCEPT !.characterId = @ + 1,
                !.characters = Put(@, id, Spread(insertCharacter, [id |-> id])),
                !.issued.character = Append(@, id)]

\* new MemStorage(), part_016:43-74
NewStore ==
  [users |-> <<>>, characters |-> <<>>, conversations |-> <<>>,
   userId |-> 1, characterId |-> 1, conversationId |-> 1,
   issued |-> [user |-> <<>>, character |-> <<>>, conversation |-> <<>>]]
Constructed ==
  createCharacter(
    createCharacter(
      createCharacter(NewStore,
                      [name |-> "Alex Johnson", description |-> "Tech instructor"]),
      [name |-> "Sarah Chen", description |-> "Language tutor"]),
    [name |-> "Raj Patel", description |-> "Fitness coach"])

InitStore ==
  /\ supported = TRUE
  /\ mimeOK = TRUE
  /\ NoJobStarted
  /\ fcIn = <<0, 0>>
  /\ fcOut = NoFrame
  /\ NoMapping
  /\ NoCompositing
  /\ NoEncoding
  /\ NoWindow
  /\ NoSimulation
  /\ store = Constructed

besidesStore == <<jobVars, calcVars, winIn, winOut, sim>>

\* ids a caller may name: those handed out and one that never was
CharacterIds == 1..(3 + MaxCreates + 1)
ConversationIds == 1..(MaxCreates + 1)

\* part_016:88-93
CreateUser ==
  /\ store.userId <= MaxCreates
  /\ \E username \in UserNames :
       LET id == IssueId(store.userId, store.users)
       IN store' = [store EXCEPT
                      !.userId = @ + 1,
                      !.users = Put(@, id, Spread([username |-> username], [id |-> id])),
                      !.issued.user = Append(@, id)]
  /\ UNCHANGED besidesStore

\* part_016:104-114
CreateCharacter ==
  /\ store.characterId <= 3 + MaxCreates
  /\ \E c \in NewCharacters : store' = createCharacter(store, c)
  /\ UNCHANGED besidesStore

\* part_016:116-126
UpdateCharacter ==
  /\ \E id \in CharacterIds, characterUpdate \in CharacterUpdates :
       store' = IF id \in DOMAIN store.characters
                THEN [store EXCEPT
                        !.characters = Put(@, id, Spread(@[id], characterUpdate))]
                ELSE store
  /\ UNCHANGED besidesStore

\* part_016:128-130
DeleteCharacter ==
  /\ \E id \in CharacterIds :
       store' = [store EXCEPT !.characters = Remove(@, id)]
  /\ UNCHANGED besidesStore

\* part_016:143-153
CreateConversation ==
  /\ store.conversationId <= MaxCreates
  /\ \E characterId \in {1, 2}, messages \in {<<>>} :
       LET id == IssueId(store.conversationId, store.conversations)
       IN store' = [store EXCEPT
                      !.conversationId = @ + 1,
                      !.conversations =
                         Put(@, id, Spread([characterId |-> characterId,
                                            messages |-> messages], [id |-> id])),
                      !.issued.conversation = Append(@, id)]
  /\ UNCHANGED besidesStore

\* part_016:155-165
AddMessageToConversation ==
  /\ \E conversationId \in ConversationIds, message \in Messages :
       /\ conversationId \in DOMAIN store.conversations
            => Len(store.conversations[conversationId].messages) < MaxMessages
       /\ store' =
            IF conversationId \in DOMAIN store.conversations
            THEN [store EXCEPT
                    !.conversations =
                       Put(@, conversationId,
                           Spread(@[conversationId],
                                  [messages |-> Append(@[conversationId].messages,
                                                       message)]))]
            ELSE store
  /\ UNCHANGED besidesStore

\* part_016:167-177
ClearConversation ==
  /\ \E conversationId \in ConversationIds :
       store' =
         IF conversationId \in DOMAIN store.conversations
         THEN [store EXCEPT
                 !.conversations =
                    Put(@, conversationId,
                        Spread(@[conversationId], [messages |-> <<>>]))]
         ELSE store
  /\ UNCHANGED besidesStore

NextStore ==
  \/ CreateUser
  \/ CreateCharacter
  \/ UpdateCharacter
  \/ DeleteCharacter
  \/ CreateConversation
  \/ AddMessageToConversation
  \/ ClearConversation

SpecStore == InitStore /\ [][NextStore]_vars

\* ---------------------------------------------------------------------
\* Properties
\* ---------------------------------------------------------------------
AfterFrames == {"stopping", "flushed", "done"}

\* C1: in every job the frames are composited in the order 0, 1, 2, ..., none
\* twice and none skipped, and every seek in flight is for a frame whose
\* predecessor has been composited, whatever seeks are confirmed in whatever
\* order.
FramesInOrder ==
  \A j \in Jobs :
    /\ \A k \in 1..Len(composited[j]) : composited[j][k] = k - 1
    /\ currentFrame[j] = Len(composited[j])
    /\ \A k \in 1..Len(seekq[j]) : seekq[j][k] <= Len(composited[j])

FramesInOrderWitness ==
  \E j \in Jobs : composited[j] = <<0, 1>> /\ seekq[j] # <<>>

FailsFastWhenUnsupported ==
  \A j \in Jobs :
    /\ (~supported /\ pc[j] # "idle")
         => /\ pc[j] = "failed"
            /\ err[j] = "Lip sync not supported"
            /\ log[j] = <<>>
            /\ handles[j] = {}
            /\ seekq[j] = <<>>
    /\ err[j] = "Lip sync not supported" => log[j] = <<>>

FailsFastWhenUnsupportedWitness ==
  \E j \in Jobs : pc[j] = "failed" /\ err[j] = "Lip sync not supported"

\* C5 as claimed: an error raised by any step of a job has made the job
\* fail with that error.
ErrorsReachCaller ==
  \A j \in Jobs :
    raised[j] # {} => (pc[j] = "failed" /\ err[j] \in raised[j])

\* C6 as claimed: a job that has ended, resolved or failed, holds no handle.
HandlesReleasedAtEnd ==
  \A j \in Jobs : pc[j] \in {"done", "failed"} => handles[j] = {}

\* C7 as claimed: while a job uses the canvas (from sizing it until its
\* result is built) the canvas has the size this job gave it and shows
\* nothing another job drew.
UsesCanvas(j) == pc[j] \in {"loadAudio", "decodeFrames", "frames", "stopping", "flushed"}

CanvasOwnedByOneJob ==
  \A j \in Jobs :
    UsesCanvas(j) => (canvas.sizedBy = j /\ canvas.shows[1] \in {0, j})

\* C8 as claimed: a job never resolves with a container of zero bytes.
NoEmptyContainer ==
  \A j \in Jobs : pc[j] = "done" => result[j].bytes > 0

\* C9 as claimed: the container a job resolves with holds the video frames
\* and the audio track.
ContainerHasAudio ==
  \A j \in Jobs : pc[j] = "done" => {"video", "audio"} \subseteq result[j].tracks

\* C10: the frame count is the least integer n with n >= m * frameRate,
\* where m is the longer of the two durations (ms); 1.7 s and 2.0 s give 60.
FrameCountIsCeilOfMax ==
  fcOut # NoFrame =>
    /\ \E m \in {fcIn[1], fcIn[2]} :
         /\ m >= fcIn[1] /\ m >= fcIn[2]
         /\ fcOut * 1000 >= m * frameRate
         /\ (fcOut - 1) * 1000 < m * frameRate
    /\ fcIn = <<1700, 2000>> => fcOut = 60

FrameCountIsCeilOfMaxWitness ==
  fcIn = <<1700, 2000>> /\ fcOut = 60

LateSeekedDiscarded ==
  [][\A j \in Jobs :
       (pc[j] \in AfterFrames /\ seekq'[j] # seekq[j])
         => /\ seekq'[j] = Tail(seekq[j])
            /\ canvas' = canvas
            /\ composited'[j] = composited[j]
            /\ amps'[j] = amps[j]
            /\ currentFrame'[j] = currentFrame[j]
            /\ pc'[j] = pc[j]
            /\ chunks'[j] = chunks[j]]_vars

LateSeekedDiscardedWitness ==
  \E j \in Jobs :
    /\ pc[j] \in AfterFrames
    /\ composited[j] = <<0, 1>>
    /\ \E a, b \in 1..Len(log[j]) :
         a < b /\ log[j][a] = "resolve" /\ log[j][b] = "resolve"

\* C20: the recorder is started before the first frame is composited and
\* asked to stop only after the last one; only non-empty chunks are kept,
\* each appended behind those received before; the result is built only
\* after the recorder has been asked to stop and has delivered, from all
\* the chunks received (start() is called without a timeslice, so there is
\* one delivery).
InLog(j, step) == \E k \in 1..Len(log[j]) : log[j][k] = step

RecorderBracketsFrames ==
  /\ [](\A j \in Jobs :
          /\ composited[j] # <<>> => InLog(j, "recorderStart")
          /\ InLog(j, "recorderStop")
               => (InLog(j, "recorderStart")
                   /\ Len(composited[j]) = frameCount[j])
          /\ \A k \in 1..Len(chunks[j]) : chunks[j][k] > 0
          /\ Len(chunks[j]) <= 1
          /\ result[j] # NoResult
               => /\ pc[j] = "done"
                  /\ InLog(j, "recorderStop")
                  /\ result[j].bytes =
                       (IF chunks[j] = <<>> THEN 0 ELSE chunks[j][1]))
  /\ [][\A j \in Jobs :
          /\ composited'[j] # composited[j] => ~InLog(j, "recorderStop")
          /\ chunks'[j] # chunks[j]
               => /\ InLog(j, "recorderStop")
                  /\ result[j] = NoResult
                  /\ \E size \in 1..MaxChunk :
                       chunks'[j] = Append(chunks[j], size)
          /\ result'[j] # result[j] => pc[j] = "flushed"]_vars

RecorderBracketsFramesWitness ==
  \E j \in Jobs :
    /\ pc[j] = "done"
    /\ composited[j] = <<0, 1>>
    /\ chunks[j] # <<>>
    /\ result[j].bytes = chunks[j][1]

\* C12: effectiveAmplitude is the amplitude times 5, limited to the range
\* 0..1, times the intensity of the profile: 1.0 for default, 0.5 for
\* subtle, 2.0 for exaggerated, 1.2 for realistic, so that
\* subtle < default < realistic < exaggerated.
EffectiveAmplitudeRule ==
  /\ intensity("subtle") < intensity("default")
  /\ intensity("default") < intensity("realistic")
  /\ intensity("realistic") < intensity("exaggerated")
  /\ mOut # <<>> =>
       LET a == mIn[1].a1
           p == mIn[1].profile
           clamped == IF a * 5 > 90 THEN 90 ELSE IF a * 5 < 0 THEN 0 ELSE a * 5
           tenths == [default |-> 10, subtle |-> 5, exaggerated |-> 20,
                      realistic |-> 12]
       IN mOut[1].eff1 = clamped * tenths[p]

EffectiveAmplitudeRuleWitness ==
  /\ mOut # <<>>
  /\ mIn[1].a1 = 24
  /\ mIn[1].profile = "realistic"
  /\ mOut[1].eff1 = 1080

\* C13 as claimed: a louder frame never gives a less open mouth: for two
\* amplitudes a1 <= a2 under one profile the rank of the mouth position
\* and openFactor are both at least as large for a2 as for a1.
MouthOpeningMonotone ==
  (mOut # <<>> /\ mIn[1].a1 <= mIn[1].a2)
    => /\ mOut[1].rank1 <= mOut[1].rank2
       /\ mOut[1].open1 <= mOut[1].open2

\* the mouth rectangle of a canvas of w x h, part_003:295-298
InMouthRect(p, w, h) ==
  /\ p[1] >= mouthX(w) /\ p[1] < mouthX(w) + mouthWidth(w)
  /\ p[2] >= mouthY(h) /\ p[2] < mouthY(h) + mouthHeight(h)

\* C14 as claimed: what the compositor leaves on the canvas is decided by
\* the frame drawn, the region and openFactor: two calls on the same frame
\* whose amplitudes and profiles give the same openFactor leave the same
\* pixels.
PureInOpenFactor ==
  Len(cOut) = 2 =>
    LET in == cIn[1]
        e1 == effectiveAmplitude(in.amplitude[1], in.profile[1])
        e2 == effectiveAmplitude(in.amplitude[2], in.profile[2])
    IN (in.frame[1] = in.frame[2] /\ openFactor(e1) = openFactor(e2))
         => cOut[1] = cOut[2]

\* C14 amended: the pixels also depend on effectiveAmplitude itself, which
\* sets the lip band.  They are decided by the frame drawn, the canvas size
\* and effectiveAmplitude: two calls on the same frame with the same
\* effectiveAmplitude leave the same pixels whatever amplitude and profile
\* gave it, and a call made after another one leaves what it would have
\* left as the first.
PureInEffectiveAmplitude ==
  Len(cOut) = 2 =>
    LET in == cIn[1]
        w == in.size[1]
        h == in.size[2]
        e1 == effectiveAmplitude(in.amplitude[1], in.profile[1])
        e2 == effectiveAmplitude(in.amplitude[2], in.profile[2])
    IN /\ (in.frame[1] = in.frame[2] /\ e1 = e2) => cOut[1] = cOut[2]
       /\ cOut[2] = applyLipSyncEffect(Frame(in.frame[2], w, h), w, h,
                                       in.amplitude[2], in.profile[2])

PureInEffectiveAmplitudeWitness ==
  /\ Len(cOut) = 2
  /\ cIn[1].frame[1] = cIn[1].frame[2]
  /\ cIn[1].amplitude = <<5, 10>>
  /\ cIn[1].profile = <<"default", "subtle">>
  /\ cOut[1] = cOut[2]
  /\ cOut[1] # Frame(cIn[1].frame[1], cIn[1].size[1], cIn[1].size[2])

HeaderCountsAgree(b, f) ==
  LET N == Len(b.channel0)
      c == b.numberOfChannels
  IN /\ f.ChunkSize = 36 + N * c * 2
     /\ f.Subchunk2Size = N * c * 2
     /\ f.ByteRate = b.sampleRate * c * 2
     /\ f.BlockAlign = c * 2
     /\ f.NumChannels = c
     /\ f.SampleRate = b.sampleRate
     /\ Len(f.data) = N * c
     /\ f.byteLength = 44 + 2 * Len(f.data)
     /\ f.ChunkSize = f.byteLength - 8

\* C16 as claimed: the byte counts of the header agree with the data
\* written, and one second of mono audio at 16000 Hz gives ChunkSize 36032
\* and Subchunk2Size 32000.
WavHeaderAsClaimed ==
  wavOut # <<>> =>
    /\ HeaderCountsAgree(wavIn[1], wavOut[1])
    /\ wavIn[1] = OneSecond
         => (wavOut[1].ChunkSize = 36032 /\ wavOut[1].Subchunk2Size = 32000)

\* C16 amended: the byte counts of the header agree with the data written;
\* for one second of mono audio at 16000 Hz that is Subchunk2Size 32000 and
\* ChunkSize 36 + 32000 = 32036.
WavHeaderConsistent ==
  wavOut # <<>> =>
    /\ HeaderCountsAgree(wavIn[1], wavOut[1])
    /\ wavIn[1] = OneSecond
         => (wavOut[1].ChunkSize = 32036 /\ wavOut[1].Subchunk2Size = 32000)

WavHeaderConsistentWitness ==
  /\ wavOut # <<>>
  /\ wavIn[1] = OneSecond
  /\ wavOut[1].ChunkSize = 32036
  /\ Len(wavOut[1].data) = 16000

RECURSIVE SumAbs(_, _, _)
SumAbs(g, lo, hi) ==
  IF lo >= hi THEN 0
  ELSE IF hi = lo + 1 THEN Abs(channelData(g, lo))
  ELSE LET mid == (lo + hi) \div 2 IN SumAbs(g, lo, mid) + SumAbs(g, mid, hi)

\* C21 as claimed: the amplitude of frame i is the mean of |sample| over
\* the samples i * n .. (i + 1) * n - 1 with n = round(sampleRate /
\* frameRate), so that the window of the next frame starts where this one
\* ends.
WindowsTile ==
  \A k \in 1..Len(winOut) :
    LET in == winIn[1]
        o == winOut[k]
        n == (2 * in.sampleRate + frameRate) \div (2 * frameRate)
    IN /\ o.samplesPerFrame = n
       /\ o.first = o.frame * n
       /\ k = 2 => o.first = winOut[1].first + winOut[1].samplesPerFrame

\* C21 amended: the window of frame i starts at the sample the time i /
\* frameRate falls on, floor((i / frameRate) * sampleRate) as doubles give
\* it, and is floor(sampleRate / frameRate) samples long; the amplitude is
\* the sum of |sample| over the part of the window inside the buffer,
\* divided by that length.  The next window starts between one sample
\* before and two samples after the end of this one.
WindowFollowsTime ==
  \A k \in 1..Len(winOut) :
    LET in == winIn[1]
        o == winOut[k]
        exact == o.frame * in.sampleRate
        end == o.first + o.samplesPerFrame
    IN /\ o.samplesPerFrame * frameRate <= in.sampleRate
       /\ (o.samplesPerFrame + 1) * frameRate > in.sampleRate
       /\ o.first * frameRate <= exact
       /\ (o.first + 2) * frameRate > exact
       /\ o.divisor = o.samplesPerFrame
       /\ o.sum = SumAbs(in.signal, Min(o.first, in.length), Min(end, in.length))
       /\ k = 2 => /\ o.first >= winOut[1].first + winOut[1].samplesPerFrame - 1
                   /\ o.first <= winOut[1].first + winOut[1].samplesPerFrame + 2

WindowFollowsTimeWitness ==
  /\ Len(winOut) = 2
  /\ winIn[1].sampleRate = 16000
  /\ winIn[1].frame = 2
  /\ winOut[1].first = 1066
  /\ winOut[2].first = 1600
  /\ winOut[1].sum > 0

\* C22: a window that runs past the end of the buffer raises no error: the
\* samples past the end add nothing, the sum is still divided by
\* samplesPerFrame, and a window that lies wholly past the end has
\* amplitude 0.
ShortWindowCountsZeros ==
  \A k \in 1..Len(winOut) :
    LET in == winIn[1]
        o == winOut[k]
        end == o.first + o.samplesPerFrame
    IN /\ o.divisor = o.samplesPerFrame
       /\ o.divisor > 0
       /\ o.sum >= 0
       /\ end > in.length
            => o.sum = SumAbs(in.signal, Min(o.first, in.length), in.length)
       /\ o.first >= in.length => o.sum = 0

ShortWindowCountsZerosWitness ==
  /\ Len(winOut) = 2
  /\ winIn[1].length = 700
  /\ winOut[1].first < 700
  /\ winOut[1].first + winOut[1].samplesPerFrame > 700
  /\ winOut[1].sum > 0
  /\ winOut[2].first >= 700
  /\ winOut[2].sum = 0

\* the rank of a mouth state
RankOf(name) == CHOOSE r \in 0..3 : mouthPositions[r + 1].name = name

\* the rank the byte thresholds give the mean sum / 18
RankOnByteScale(sum) ==
  IF sum < 40 * VoiceBins THEN 0
  ELSE IF sum < 100 * VoiceBins THEN 1
  ELSE IF sum < 160 * VoiceBins THEN 2
  ELSE 3

\* the rank the thresholds 0.157, 0.392 and 0.627 give the amplitude
\* num / den of the [0,1] scale
RankOnUnitScale(num, den) ==
  IF num * 1000 < 157 * den THEN 0
  ELSE IF num * 1000 < 392 * den THEN 1
  ELSE IF num * 1000 < 627 * den THEN 2
  ELSE 3

\* the rank the thresholds 40/255, 100/255 and 160/255 give the amplitude
\* num / den of the [0,1] scale
RankAtFractions(num, den) ==
  IF num * 255 < 40 * den THEN 0
  ELSE IF num * 255 < 100 * den THEN 1
  ELSE IF num * 255 < 160 * den THEN 2
  ELSE 3

\* C23 as claimed: the mouth state of a frame is decided by the amplitude
\* alone: below 40 closed, from 40 below 100 slightly, from 100 below 160
\* medium, from 160 wide on the 0-255 scale, which is the same as the
\* thresholds 0.157, 0.392 and 0.627 on the amplitude divided by 255.
MouthStateOnBothScales ==
  sim.pc # "idle" =>
    \A k \in 1..Len(sim.frames) :
      LET f == sim.frames[k]
      IN /\ RankOf(f.mouth) = RankOnByteScale(f.sum)
         /\ RankOf(f.mouth) = RankOnUnitScale(f.sum, VoiceBins * 255)

\* C23 amended: the mouth state of a frame is decided by the amplitude
\* alone, there is no profile: below 40 closed, from 40 below 100
\* slightly, from 100 below 160 medium, from 160 wide on the 0-255 scale,
\* every amplitude with exactly one state.  On the [0,1] scale the
\* thresholds are 40/255, 100/255 and 160/255.
MouthStateOnByteScale ==
  sim.pc # "idle" =>
    /\ \A k \in 1..Len(sim.frames) :
         LET f == sim.frames[k]
         IN /\ f.mouth \in {"closed", "slightly", "medium", "wide"}
            /\ RankOf(f.mouth) = RankOnByteScale(f.sum)
            /\ RankOf(f.mouth) = RankAtFractions(f.sum, VoiceBins * 255)
    /\ \A j, k \in 1..Len(sim.frames) :
         sim.frames[j].sum = sim.frames[k].sum
           => sim.frames[j].mouth = sim.frames[k].mouth

MouthStateOnByteScaleWitness ==
  /\ sim.pc # "idle"
  /\ Len(sim.frames) = 4
  /\ sim.frames[1] = [sum |-> 719, mouth |-> "closed", ellipse |-> -1]
  /\ sim.frames[2] = [sum |-> 720, mouth |-> "slightly", ellipse |-> 2]
  /\ sim.frames[3].mouth = "medium"
  /\ sim.frames[4].mouth = "wide"

\* the sum of the 18 bins at num / 20 of full scale lies in lo .. hi
SumAt(num, lo, hi) ==
  /\ lo * 20 <= num * 255 * VoiceBins
  /\ num * 255 * VoiceBins <= hi * 20

\* four frames drawn at the amplitudes 0, 0.05, 0.2 and 0.9 of full scale;
\* 0.05 lies between the sums 229 and 230
QuietToLoud ==
  /\ sim.pc # "idle"
  /\ Len(sim.frames) = 4
  /\ sim.frames[1].sum = 0
  /\ sim.frames[2].sum \in {229, 230} /\ SumAt(1, 229, 230)
  /\ sim.frames[3].sum = 918 /\ SumAt(4, 918, 918)
  /\ sim.frames[4].sum = 4131 /\ SumAt(18, 4131, 4131)

\* C24 as claimed: the thresholds are applied to clamp(amplitude x 5, 0,
\* 1), and the amplitudes 0, 0.05, 0.2, 0.9 give closed, closed, slightly,
\* wide.
BucketsOfScaledAmplitude ==
  QuietToLoud =>
    /\ \A k \in 1..4 :
         RankOf(sim.frames[k].mouth)
           = mouthPosition(VoiceMean(Min(255 * VoiceBins, sim.frames[k].sum * 5)))
    /\ [k \in 1..4 |-> sim.frames[k].mouth]
         = <<"closed", "closed", "slightly", "wide">>

\* C24 amended: the thresholds are applied to the amplitude itself, as a
\* fraction of full scale; the amplitudes 0, 0.05, 0.2, 0.9 give closed,
\* closed, slightly, wide, which never steps down.  (On clamp(amplitude x
\* 5, 0, 1) the states would be closed, slightly, wide, wide.)
BucketsOfAmplitude ==
  QuietToLoud =>
    /\ [k \in 1..4 |-> sim.frames[k].mouth]
         = <<"closed", "closed", "slightly", "wide">>
    /\ \A k \in 1..3 :
         RankOf(sim.frames[k].mouth) <= RankOf(sim.frames[k + 1].mouth)
    /\ [k \in 1..4 |-> mouthPosition(VoiceMean(Min(255 * VoiceBins,
                                                   sim.frames[k].sum * 5)))]
         = <<0, 1, 3, 3>>

BucketsOfAmplitudeWitness ==
  /\ QuietToLoud
  /\ sim.frames[2].sum = 230
  /\ sim.frames[3].ellipse = 2
  /\ sim.frames[4].ellipse = 6

\* C29: the recorder's stop() is called at most once, by the first tick
\* that finds the audio ended or paused; from then on no frame is drawn,
\* no tick is scheduled and none runs; a first tick that finds the audio
\* paused stops before any frame is drawn.
StoppedForGood ==
  sim.pc # "idle" =>
    /\ sim.stops <= 1
    /\ sim.stops = 1 => ~sim.raf
    /\ sim.ticks = Len(sim.frames) + sim.stops
    /\ (sim.pc = "running" /\ sim.stops = 0) => sim.raf
StopAtFirstSilentTick ==
  sim.pc # "idle" /\ sim'.ticks # sim.ticks =>
    /\ sim.stops = 0
    /\ sim'.audio # "playing"
         => /\ sim'.stops = 1
            /\ sim'.frames = sim.frames
            /\ ~sim'.raf
    /\ sim'.audio = "playing"
         => /\ sim'.stops = 0
            /\ Len(sim'.frames) = Len(sim.frames) + 1
PausedAtFirstTick ==
  sim.pc = "idle" /\ sim'.pc = "running" /\ sim'.audio # "playing" =>
    sim'.stops = 1 /\ sim'.frames = <<>> /\ sim'.ticks = 1
StopCalledOnce ==
  /\ []StoppedForGood
  /\ [][sim.pc # "idle" /\ sim.stops = 1 =>
          sim'.stops = 1 /\ sim'.frames = sim.frames /\ sim'.ticks = sim.ticks]_vars
  /\ [][StopAtFirstSilentTick /\ PausedAtFirstTick]_vars

StopCalledOnceWitness ==
  /\ sim.pc = "done"
  /\ sim.promise = "resolved"
  /\ sim.stops = 1
  /\ sim.audio = "playing"
  /\ Len(sim.frames) = 2
  /\ sim.ticks = 3

\* the stored value out is the product c * num / 10, limited to 255 and
\* rounded to a whole number
Times(out, c, num) ==
  LET exact == Min(2550, c * num)
  IN /\ out \in 0..255
     /\ 10 * out - exact <= 5
     /\ exact - 10 * out <= 5

\* the three cases of the pixel rule for the pixel q of the mouth
\* rectangle of height mh and width mw: 4 d^2 < mh^2; d < 0.2 mh
\* openFactor, with openFactor cut to 1000ths; |row - centre| < 10
\* effectiveAmplitude
NearCentre(q, mw, mh) ==
  (2 * q[1] - mw) * (2 * q[1] - mw) + (2 * q[2] - mh) * (2 * q[2] - mh) < mh * mh
InOpening(q, mw, mh, open) ==
  LET d2 == (2 * q[1] - mw) * (2 * q[1] - mw) + (2 * q[2] - mh) * (2 * q[2] - mh)
      o == open \div 100
  IN open > 0 /\ (d2 = 0 \/ 25 * d2 * 1000000 < 4 * mh * mh * o * o)
OnLips(q, mh, eff) ==
  LET dy2 == 2 * q[2] - mh
  IN 90 * Abs(dy2) < 2 * eff

\* C25: a pixel of the mouth region nearer than half the region's height
\* to its centre is darkened, each colour times 0.5, if nearer than 0.2 x
\* height x openFactor; else, if its row is less than 10 x
\* effectiveAmplitude from the centre row, red is taken times 1.2 and
\* green and blue times 0.8; else it is as it was.  Every channel is a
\* whole number of 0 .. 255.
PixelRule ==
  \A n \in 1..Len(cOut) :
    LET in == cIn[1]
        w == in.size[1]
        h == in.size[2]
        mw == mouthWidth(w)
        mh == mouthHeight(h)
        eff == effectiveAmplitude(in.amplitude[n], in.profile[n])
        src == Frame(in.frame[n], w, h)
    IN /\ \A p \in Pixels(w, h) : \A c \in 1..4 : cOut[n][p][c] \in 0..255
       /\ \A q \in Pixels(mw, mh) :
            LET p == <<mouthX(w) + q[1], mouthY(h) + q[2]>>
                was == src[p]
                now == cOut[n][p]
            IN NearCentre(q, mw, mh) =>
                 IF InOpening(q, mw, mh, openFactor(eff))
                 THEN \A c \in 1..3 : Times(now[c], was[c], 5)
                 ELSE IF OnLips(q, mh, eff)
                      THEN /\ Times(now[1], was[1], 12)
                           /\ Times(now[2], was[2], 8)
                           /\ Times(now[3], was[3], 8)
                      ELSE now = was

\* one call darkened a pixel, coloured another as lips, limited a red
\* channel to 255 and left a third pixel near the centre as it was
PixelRuleWitness ==
  /\ Len(cOut) = 2
  /\ LET in == cIn[1]
         w == in.size[1]
         h == in.size[2]
         mw == mouthWidth(w)
         mh == mouthHeight(h)
         eff == effectiveAmplitude(in.amplitude[1], in.profile[1])
         src == Frame(in.frame[1], w, h)
         at(q) == <<mouthX(w) + q[1], mouthY(h) + q[2]>>
     IN /\ \E q \in Pixels(mw, mh) :
             /\ NearCentre(q, mw, mh) /\ InOpening(q, mw, mh, openFactor(eff))
             /\ cOut[1][at(q)][1] < src[at(q)][1]
        /\ \E q \in Pixels(mw, mh) :
             /\ NearCentre(q, mw, mh) /\ ~InOpening(q, mw, mh, openFactor(eff))
             /\ OnLips(q, mh, eff)
             /\ cOut[1][at(q)][1] > src[at(q)][1]
        /\ \E q \in Pixels(mw, mh) :
             /\ NearCentre(q, mw, mh)
             /\ ~InOpening(q, mw, mh, openFactor(eff)) /\ ~OnLips(q, mh, eff)
             /\ cOut[1][at(q)] = src[at(q)]

\* C26: the call changes no pixel outside the mouth region, no pixel of
\* the region at half the region's height or more from its centre, and no
\* alpha; with amplitude 0 the canvas is the frame that was drawn.
OnlyNearCentreChanged ==
  \A n \in 1..Len(cOut) :
    LET in == cIn[1]
        w == in.size[1]
        h == in.size[2]
        mw == mouthWidth(w)
        mh == mouthHeight(h)
        src == Frame(in.frame[n], w, h)
    IN /\ \A p \in Pixels(w, h) :
            /\ cOut[n][p][4] = src[p][4]
            /\ (~InMouthRect(p, w, h)
                 \/ ~NearCentre(<<p[1] - mouthX(w), p[2] - mouthY(h)>>, mw, mh))
                 => cOut[n][p] = src[p]
       /\ in.amplitude[n] = 0 => cOut[n] = src

OnlyNearCentreChangedWitness ==
  /\ Len(cOut) = 2
  /\ cIn[1].amplitude[1] = 0
  /\ cIn[1].amplitude[2] = 18
  /\ cIn[1].profile[2] = "exaggerated"
  /\ cOut[1] = Frame(cIn[1].frame[1], cIn[1].size[1], cIn[1].size[2])
  /\ cOut[2] # Frame(cIn[1].frame[2], cIn[1].size[1], cIn[1].size[2])

\* the int16 v is the product clamp(num / den, -1, 1) x 0.9 x 0x8000 below
\* zero, x 0x7FFF else, cut to a whole number
QuantizedFrom(v, num, den) ==
  LET clamped == Max(0 - den, Min(den, num))
      size == 9 * Abs(clamped) * (IF clamped < 0 THEN 32768 ELSE 32767)
  IN /\ 10 * den * Abs(v) <= size
     /\ size < 10 * den * (Abs(v) + 1)
     /\ v < 0 => clamped < 0
     /\ v > 0 => clamped > 0

\* C27 as claimed: the int16 written is clamp(s, -1, 1) x 0.9 times 0x8000
\* below zero and 0x7FFF else, lies in -32768 .. 32767, and has the sign of
\* s whenever s is not zero.
Int16KeepsSign ==
  wavOut # <<>> =>
    LET in == wavIn[1]
        v == wavOut[1]
    IN /\ QuantizedFrom(v, in.num, in.den)
       /\ v >= -32768 /\ v <= 32767
       /\ in.num > 0 => v > 0
       /\ in.num < 0 => v < 0

\* C27 amended: the int16 written is that product cut to a whole number;
\* it lies in -29491 .. 29490, so nothing wraps; a positive sample is
\* never written as a negative value nor a negative one as a positive
\* value, and a sample is written as 0 exactly if the product is less
\* than 1 in size (|s| below about 1/29490).
Int16NeverFlipsSign ==
  wavOut # <<>> =>
    LET in == wavIn[1]
        v == wavOut[1]
    IN /\ QuantizedFrom(v, in.num, in.den)
       /\ v >= -29491 /\ v <= 29490
       /\ in.num > 0 => v >= 0
       /\ in.num < 0 => v <= 0
       /\ v = 0 <=> \/ (in.num >= 0 /\ 9 * in.num * 32767 < 10 * in.den)
                    \/ (in.num < 0 /\ 9 * (0 - in.num) * 32768 < 10 * in.den)

Int16NeverFlipsSignWitness ==
  /\ wavOut = <<0>>
  /\ wavIn[1] = [num |-> -1, den |-> 40000]

\* the ids of a sequence rise strictly, and all lie below the counter
RisingBelow(ids, counter) ==
  /\ \A i \in 1..Len(ids) : ids[i] < counter
  /\ \A i, j \in 1..Len(ids) : i < j => ids[i] < ids[j]

\* every record of the map is stored under its id, which was handed out
KeyedById(map, ids) ==
  \A k \in DOMAIN map :
    /\ map[k].id = k
    /\ \E i \in 1..Len(ids) : ids[i] = k

\* C30: the ids handed out for users, for characters and for
\* conversations are all different within their kind, whatever was
\* deleted since; each comes from a counter that never goes down; every
\* record is stored under its own id.
IdsIssuedOnce ==
  /\ RisingBelow(store.issued.user, store.userId)
  /\ RisingBelow(store.issued.character, store.characterId)
  /\ RisingBelow(store.issued.conversation, store.conversationId)
  /\ KeyedById(store.users, store.issued.user)
  /\ KeyedById(store.characters, store.issued.character)
  /\ KeyedById(store.conversations, store.issued.conversation)
CountersOnlyRise ==
  /\ store'.userId >= store.userId
  /\ store'.characterId >= store.characterId
  /\ store'.conversationId >= store.conversationId
  /\ \A kind \in {"user", "character", "conversation"} :
       \/ store'.issued[kind] = store.issued[kind]
       \/ /\ Len(store'.issued[kind]) = Len(store.issued[kind]) + 1
          /\ \A i \in 1..Len(store.issued[kind]) :
               /\ store'.issued[kind][i] = store.issued[kind][i]
               /\ store'.issued[kind][i] # store'.issued[kind][Len(store'.issued[kind])]
StorageIdsUnique == []IdsIssuedOnce /\ [][CountersOnlyRise]_vars

\* a character was deleted, another renamed, and the next character made
\* got a new id; a conversation holds a message
StorageIdsUniqueWitness ==
  /\ DOMAIN store.characters = {1, 3, 4}
  /\ store.characters[3].name = "Renamed"
  /\ store.characters[4].id = 4
  /\ store.issued.character = <<1, 2, 3, 4>>
  /\ 1 \in DOMAIN store.users
  /\ 1 \in DOMAIN store.conversations
  /\ store.conversations[1].messages = <<"hi">>

\* C28 as claimed: with every seek confirmed in the end, a job that has
\* entered the frame loop leaves it by resolve(), whatever frameCount is,
\* and when it resolves exactly frameCount frames have been composited.
FrameLoopResolves ==
  /\ \A j \in Jobs : (pc[j] = "frames") ~> InLog(j, "resolve")
  /\ [](\A j \in Jobs :
          InLog(j, "resolve") => Len(composited[j]) = frameCount[j])

====
